---- MODULE Spec2Model ----
(***************************************************************************)
(* Model of the paper search system.                                       *)
(*                                                                         *)
(*   - the client component PaperSearchSystem (its React state, and the    *)
(*     asynchronous handler handleDiscussionSubmit, one action per await), *)
(*   - the pure helpers it uses (extractPMIDFromAbstract,                  *)
(*     generateSearchTerms, analyzePaperRelevance, _.orderBy, ...),        *)
(*   - the literature-database route GET /api/pubmed.                      *)
(*                                                                         *)
(* Texts are sequences of tokens: a word, a blank, a line break, the       *)
(* literal "PMID:" (either case) or a run of digits.  Upstream services    *)
(* (PubMed, the completion API, the identifier-resolution API) are the     *)
(* environment: each reply is drawn from a small set of reply shapes.      *)
(***************************************************************************)
EXTENDS Integers, Sequences, FiniteSets, TLC

\* ------------------------------------------------------------------ bounds
\* Longest reference list the literature database returns.
MaxRefs == 2
\* Most keyword-search identifiers the literature database returns in one
\* search flow (over all terms).
MaxHits == 2
\* Number of lines of the longest term-generation reply.
MaxLines == 13
\* Runs of the term generator that are compared with one another.
MaxRuns == 2

\* ------------------------------------------------------- program constants
DEFAULT_MAX_RESULTS == 20
batchSize == 5
TOP_KEYWORDS == 5
FALLBACK_SCORE == 5
REFERENCE_SCORE == 8
MAIN_SCORE == 10
ERROR_PAPER_SCORE == 5
CITING_SCORE == 7
REFERENCES_DEFAULT_MAX == 100

\* The fixed summary strings of the component, by name.
SUM_FALLBACK == "1. Error analyzing paper"
SUM_REFERENCE == "1. Referenced in the main paper"
SUM_DIRECT == "1. This paper was directly searched by PMID"
SUM_ERROR_PAPER == "1. Error occurred while loading paper"
SUM_CITING == "1. Paper cites the selected paper"
SUM_MODEL == "summary written by the model"

\* -------------------------------------------------------------- identifiers
Ids == {"1", "2", "3"}
Null == "null"

\* Numeric value of an identifier: Object.entries lists integer-like keys in
\* ascending numeric order.
IdNum(id) ==
  CASE id = "1" -> 1 [] id = "2" -> 2 [] id = "3" -> 3 [] id = "4" -> 4
    [] id = "5" -> 5 [] id = "6" -> 6 [] id = "7" -> 7 [] OTHER -> 0

\* ------------------------------------------------------------------- texts
Blank == " "
NL == "\n"
IsWhite(tok) == tok \in {Blank, NL}
IsDigits(tok) == tok \in Ids
IsPmidLiteral(tok) == tok \in {"PMID:", "pmid:"}

\* The discussion texts the user may enter.
DiscussionTexts ==
  { <<>>,
    <<"x", Blank, "y">>,
    <<"PMID:", "x", NL, "pmid:", Blank, Blank, "2", "y">> }

\* Values the maxResults input can hold after an edit: parseInt(value) ||
\* DEFAULT_MAX_RESULTS.
MaxResultsValues == {DEFAULT_MAX_RESULTS, 0 - 1, 2}

\* ---------------------------------------------------------- generic helpers
Min(a, b) == IF a < b THEN a ELSE b
Max(a, b) == IF a > b THEN a ELSE b
\* Math.ceil(a / b) for a >= 0, b > 0
CeilDiv(a, b) == (a + b - 1) \div b
\* Math.floor(n * 0.8) and Math.floor(n * 0.2)
FloorPct80(n) == (n * 4) \div 5
FloorPct20(n) == n \div 5

\* Array.prototype.slice(0, end): a negative end counts from the end.
JsSliceFromStart(s, end) ==
  LET e == IF end < 0 THEN Max(Len(s) + end, 0) ELSE Min(end, Len(s))
  IN SubSeq(s, 1, e)

\* Array.prototype.slice(start, start + n), start a 0-based index within s.
JsChunk(s, start, n) == SubSeq(s, start + 1, Min(start + n, Len(s)))

Range(s) == {s[i] : i \in 1..Len(s)}
NoDup(s) == \A i, j \in 1..Len(s) : i # j => s[i] # s[j]
SeqsNoDup(S, n) == UNION {{s \in [1..k -> S] : NoDup(s)} : k \in 0..n}

RECURSIVE Flatten(_)
Flatten(ss) == IF ss = <<>> THEN <<>> ELSE Head(ss) \o Flatten(Tail(ss))

\* ------------------------------------------------- extractPMIDFromAbstract
RECURSIVE SkipWhite(_, _)
SkipWhite(text, i) ==
  IF i <= Len(text) /\ IsWhite(text[i]) THEN SkipWhite(text, i + 1) ELSE i

\* The match of /PMID:\s*(\d+)/i attempted at position i: the digits, or Null.
MatchAt(text, i) ==
  IF i <= Len(text) /\ IsPmidLiteral(text[i])
  THEN LET j == SkipWhite(text, i + 1)
       IN IF j <= Len(text) /\ IsDigits(text[j]) THEN text[j] ELSE Null
  ELSE Null

RECURSIVE FirstMatchFrom(_, _)
FirstMatchFrom(text, i) ==
  IF i > Len(text) THEN Null
  ELSE IF MatchAt(text, i) # Null THEN MatchAt(text, i)
  ELSE FirstMatchFrom(text, i + 1)

extractPMIDFromAbstract(text) == FirstMatchFrom(text, 1)

\* ------------------------------------------------------ generateSearchTerms
\* String.prototype.trim on a token sequence.
RECURSIVE TrimLeft(_)
TrimLeft(t) == IF t # <<>> /\ IsWhite(Head(t)) THEN TrimLeft(Tail(t)) ELSE t
RECURSIVE TrimRight(_)
TrimRight(t) ==
  IF t # <<>> /\ IsWhite(t[Len(t)]) THEN TrimRight(SubSeq(t, 1, Len(t) - 1)) ELSE t
Trim(t) == TrimRight(TrimLeft(t))

\* String.prototype.split('\n'): the lines, the empty ones included; the
\* empty text splits into one empty line.
RECURSIVE SplitLines(_, _)
SplitLines(t, cur) ==
  IF t = <<>> THEN <<cur>>
  ELSE IF Head(t) = NL THEN <<cur>> \o SplitLines(Tail(t), <<>>)
  ELSE SplitLines(Tail(t), Append(cur, Head(t)))

\* The replies of POST /api/claude to the term-generation prompt.
LongReply == [i \in 1..(2 * MaxLines - 1) |-> IF i % 2 = 1 THEN "a" ELSE NL]
TermReplyTexts ==
  { <<>>,
    <<NL, Blank, NL>>,
    <<"a">>,
    <<Blank, "a", NL, NL, "b", NL>>,
    LongReply }
\* A failed call: the request is rejected, the route answers with a status
\* that is not OK (what it does when the completion API is unreachable), or
\* the body lacks content[0].text.
TermFailures == {[kind |-> "rejected"], [kind |-> "notOk"], [kind |-> "noContent"]}
TermReplies(up) ==
  IF up
  THEN {[kind |-> "rejected"], [kind |-> "noContent"]}
       \cup {[kind |-> "text", text |-> t] : t \in TermReplyTexts}
  ELSE {[kind |-> "notOk"]}

\* The runs of generateSearchTerms made so far, each with the discussion
\* text it was given, the reply it received and the list it returned.
VARIABLE genRuns

\* The outcome of generateSearchTerms: the returned list (the function has a
\* catch around its whole body, so it never raises).
generateSearchTermsUnstable(reply, text) ==
  IF reply.kind = "text"
  THEN [raised |-> FALSE,
        terms |-> SelectSeq(SplitLines(Trim(reply.text), <<>>), LAMBDA l : Len(l) > 0)]
  ELSE [raised |-> FALSE, terms |-> IF genRuns = <<>> THEN <<text>> ELSE <<>>]
generateSearchTermsFailing(reply, text) ==
  IF reply.kind = "text"
  THEN [raised |-> FALSE,
        terms |-> SelectSeq(SplitLines(Trim(reply.text), <<>>), LAMBDA l : Len(l) > 0)]
  ELSE [raised |-> FALSE, terms |-> <<>>]
generateSearchTerms(reply, text) ==
  IF reply.kind = "text"
  THEN [raised |-> FALSE,
        terms |-> SelectSeq(SplitLines(Trim(reply.text), <<>>), LAMBDA l : Len(l) > 0)]
  ELSE [raised |-> FALSE, terms |-> <<text>>]

\* ---------------------------------------------------- analyzePaperRelevance
\* Scores the completion API may put in its JSON reply.
ModelScores == {9, 11}
\* A failed call: a status that is not OK (the completion API is
\* unreachable), or a text that JSON.parse rejects.
ScoreFailures == {[kind |-> "notOk"], [kind |-> "unparsable"]}
ScoreReplies(up) ==
  IF up
  THEN {[kind |-> "unparsable"]}
       \cup {[kind |-> "json", relevanceScore |-> n] : n \in ModelScores}
  ELSE {[kind |-> "notOk"]}

analyzePaperRelevanceRaising(reply) ==
  IF reply.kind = "json"
  THEN [raised |-> FALSE, relevanceScore |-> reply.relevanceScore, summary |-> SUM_MODEL]
  ELSE IF reply.kind = "unparsable"
  THEN [raised |-> TRUE, relevanceScore |-> 0, summary |-> SUM_MODEL]
  ELSE [raised |-> FALSE, relevanceScore |-> FALLBACK_SCORE, summary |-> SUM_FALLBACK]
analyzePaperRelevance(reply) ==
  IF reply.kind = "json"
  THEN [raised |-> FALSE, relevanceScore |-> reply.relevanceScore, summary |-> SUM_MODEL]
  ELSE [raised |-> FALSE, relevanceScore |-> FALLBACK_SCORE, summary |-> SUM_FALLBACK]

\* ---------------------------------------------------------- paper records
\* A keyword-search paper before scoring carries no relevanceScore; only the
\* subject paper carries isMainPaper.
ScoredPaper(id, analysis) ==
  [pmid |-> id, relevanceScore |-> analysis.relevanceScore, summary |-> analysis.summary]
ReferencePaper(id) ==
  [pmid |-> id, relevanceScore |-> REFERENCE_SCORE, summary |-> SUM_REFERENCE]

\* processPaperData: the body of a summary response is "ok" (summary and
\* full present, the record found) or malformed, and then the catch returns
\* the placeholder paper.
processPaperData(body, id) ==
  IF body = "ok"
  THEN [pmid |-> id, relevanceScore |-> MAIN_SCORE, summary |-> SUM_DIRECT]
  ELSE [pmid |-> "unknown", relevanceScore |-> ERROR_PAPER_SCORE, summary |-> SUM_ERROR_PAPER]

WithMainFlag(p) ==
  [pmid |-> p.pmid, relevanceScore |-> p.relevanceScore, summary |-> p.summary,
   isMainPaper |-> TRUE]

IsMain(p) == "isMainPaper" \in DOMAIN p

\* extractReferenceIds on the body of the references response.
extractReferenceIds(body) == IF body.kind = "refs" THEN body.links ELSE <<>>

\* findPMIDWithPerplexity: the identifier found in the reply, or Null.
RECURSIVE FirstPubmedUrl(_)
FirstPubmedUrl(urls) ==
  IF urls = <<>> THEN Null
  ELSE IF Head(urls) \in Ids THEN Head(urls) ELSE FirstPubmedUrl(Tail(urls))
findPMIDWithPerplexity(reply) ==
  CASE reply.kind = "digits8" -> reply.pmid
    [] reply.kind = "pattern" -> reply.pmid
    [] reply.kind = "notFound" -> FirstPubmedUrl(reply.citations)
    [] OTHER -> Null
PerplexityReplies ==
  {[kind |-> "notOk"], [kind |-> "noChoices"], [kind |-> "otherText"]}
  \cup {[kind |-> k, pmid |-> "3"] : k \in {"digits8", "pattern"}}
  \cup {[kind |-> "notFound", citations |-> c] :
          c \in {<<>>, <<"other">>, <<"other", "3", "1">>}}

\* ------------------------------------------------------------- _.orderBy
\* A sort criterion of a paper: the value of the field, or undefined.
Criterion(p, key) ==
  IF key \notin DOMAIN p THEN [def |-> FALSE, n |-> 0]
  ELSE IF key = "isMainPaper" THEN [def |-> TRUE, n |-> 1]
  ELSE [def |-> TRUE, n |-> p[key]]

\* lodash compareAscending: undefined sorts after every defined value.
compareAscending(v, o) ==
  IF v = o THEN 0
  ELSE IF ~v.def THEN 1
  ELSE IF ~o.def THEN 0 - 1
  ELSE IF v.n > o.n THEN 1
  ELSE IF v.n < o.n THEN 0 - 1
  ELSE 0

\* lodash compareMultiple: the first criterion that differs decides, negated
\* for a "desc" order; 0 leaves the original order (the sort is stable).
RECURSIVE compareMultiple(_, _, _, _)
compareMultiple(a, b, keys, orders) ==
  IF keys = <<>> THEN 0
  ELSE LET r == compareAscending(Criterion(a, Head(keys)), Criterion(b, Head(keys)))
       IN IF r # 0 THEN (IF Head(orders) = "desc" THEN 0 - r ELSE r)
          ELSE compareMultiple(a, b, Tail(keys), Tail(orders))

\* p inserted into the sorted s after every element that does not follow it.
RECURSIVE InsertSorted(_, _, _, _)
InsertSorted(s, p, keys, orders) ==
  IF s = <<>> THEN <<p>>
  ELSE IF compareMultiple(Head(s), p, keys, orders) <= 0
  THEN <<Head(s)>> \o InsertSorted(Tail(s), p, keys, orders)
  ELSE <<p>> \o s

RECURSIVE orderByFrom(_, _, _, _)
orderByFrom(sorted, rest, keys, orders) ==
  IF rest = <<>> THEN sorted
  ELSE orderByFrom(InsertSorted(sorted, Head(rest), keys, orders), Tail(rest), keys, orders)

orderBy(list, keys, orders) == orderByFrom(<<>>, list, keys, orders)

\* Object.entries of the summary result: the batch's records by ascending
\* numeric identifier.
RECURSIVE InsertById(_, _)
InsertById(s, id) ==
  IF s = <<>> THEN <<id>>
  ELSE IF IdNum(Head(s)) <= IdNum(id) THEN <<Head(s)>> \o InsertById(Tail(s), id)
  ELSE <<id>> \o s
RECURSIVE ObjectEntriesOrder(_)
ObjectEntriesOrder(ids) ==
  IF ids = <<>> THEN <<>> ELSE InsertById(ObjectEntriesOrder(Tail(ids)), Head(ids))

\* ---------------------------------------------- handleDiscussionSubmit: merge
\* The loop of lines 886-892: the papers of sorted whose pmid is not among
\* existing, up to cap of them.
RECURSIVE TakeUniqueNoFilter(_, _, _)
TakeUniqueNoFilter(sorted, existing, cap) ==
  IF sorted = <<>> \/ cap <= 0 THEN <<>>
  ELSE <<Head(sorted)>> \o TakeUniqueNoFilter(Tail(sorted), existing, cap - 1)
RECURSIVE TakeUnique(_, _, _)
TakeUnique(sorted, existing, cap) ==
  IF sorted = <<>> THEN <<>>
  ELSE IF Head(sorted).pmid \notin existing
  THEN <<Head(sorted)>> \o
       (IF 1 >= cap THEN <<>> ELSE TakeUnique(Tail(sorted), existing, cap - 1))
  ELSE TakeUnique(Tail(sorted), existing, cap)

maxReferencesToGet(m) == FloorPct80(m)
maxAdditionalPapers(m) == Max(2, FloorPct20(m))
remainingSpots(m, n) == Max(2, m - n)
\* A variant of the quotient below that rounds down.
resultsPerKeywordFloor(m, n, k) == Max(1, remainingSpots(m, n) \div k)
resultsPerKeywordOf(m, n, k) == Max(1, CeilDiv(remainingSpots(m, n), k))

\* ===================================================== the client component
VARIABLES
  discussionText,     \* useState: the text area
  maxResults,         \* useState: searchConfig.maxResults
  loading,            \* useState
  papers,             \* useState: the result list
  searchTerms,        \* useState: the generated terms
  pc,                 \* where handleDiscussionSubmit stands
  claudeUp,           \* environment: whether the completion API is reachable
  pmid,               \* locals of handleDiscussionSubmit ...
  mainPaper,
  idsToProcess,       \* findReferencedPapers: the identifiers within the budget
  refIdx,             \* findReferencedPapers: identifiers requested so far
  refReplies,         \* findReferencedPapers: what each request returned
  referencesPapers,
  allResults,
  termReply,          \* the reply generateSearchTerms received
  keywordsToUse,
  resultsPerKeyword,
  termIdx,            \* keyword searches started so far
  kwRequests,         \* the search requests issued: term and retmax
  kwFailed,           \* how many terms' searchPubMed hit its catch
  ids,                \* searchPubMed: the identifier list of the current term
  batchStart,         \* searchPubMed: the loop index i * batchSize
  allPapers,          \* searchPubMed: the papers of the batches done
  lastScored,         \* the scoring calls of the batch just done: reply and outcome
  allKeywordResults,
  uniqueTopResults,
  caught              \* the call whose exception reached the catch of line 908

\* The state of the route GET /api/pubmed (its actions are further down).
VARIABLES
  rType,       \* the request's type parameter
  rpc,         \* where GET stands
  rCalls,      \* the upstream calls made: endpoint, attempt and reply
  rSleeps,     \* the delays awaited, in ms
  rResponse    \* the response returned

routeVars == <<rType, rpc, rCalls, rSleeps, rResponse>>

clientVars ==
  <<discussionText, maxResults, loading, papers, searchTerms, pc, claudeUp, pmid, mainPaper,
    idsToProcess, refIdx, refReplies, referencesPapers, allResults, termReply, keywordsToUse,
    resultsPerKeyword, termIdx, kwRequests, kwFailed, ids, batchStart, allPapers, lastScored,
    allKeywordResults, uniqueTopResults, caught>>

\* The state of handlePaperSelect and the two switches of searchConfig it
\* reads.
VARIABLES
  includeCitations,   \* useState: searchConfig.includeCitations
  includeReferences,  \* useState: searchConfig.includeReferences
  selPc,              \* where handlePaperSelect stands
  selPaper,           \* paper.pmid of the clicked paper
  selPapers,          \* the papers its closure captured when the paper was clicked
  selReferences,      \* paper.references of the clicked paper
  citingPapers,       \* what findCitingPapers returned
  referencedPapers    \* what findReferencedPapers returned

selectVars ==
  <<includeCitations, includeReferences, selPc, selPaper, selPapers, selReferences,
    citingPapers, referencedPapers>>

\* The runs of the record builders taken as functions of their inputs.
VARIABLE built

\* A second running handlePaperSelect: the one whose paper was clicked first
\* when two selections overlap.
VARIABLES
  firstPc,            \* where it stands
  firstPaper,         \* paper.pmid of its paper
  firstPapers,        \* the papers its closure captured
  firstReferences,    \* paper.references of its paper
  firstCiting         \* what its findCitingPapers returned
firstVars == <<firstPc, firstPaper, firstPapers, firstReferences, firstCiting>>

\* searchPubMed's batch loop, one step per await.
VARIABLES
  batchPc,            \* where the loop stands: "summary", "scoring" or "delay"
  summaryRequests,    \* the identifier lists of the summary requests issued for the term
  analyses,           \* scoring call of the batch (by index) -> what it returned
  batchDelays         \* the inter-batch delays that have elapsed for the term
batchVars == <<batchPc, summaryRequests, analyses, batchDelays>>
sideVars == <<built, firstVars, batchVars>>

\* State of the component that the search flow does not read.
VARIABLES
  selectedPaper,      \* useState (line 147): <<>> for null, else <<[pmid, citations]>>
  notes,              \* useState (line 148): paper id -> note
  filterText,         \* useState (line 155)
  searchProgress      \* useState (line 156): current and total
uiVars == <<selectedPaper, notes, filterText>>

\* What the actions of the search flow, and those of the route, leave alone.
outsideSearch == <<routeVars, genRuns, selectVars, sideVars, notes, filterText>>
outsideClient == <<outsideSearch, searchProgress, selectedPaper>>
outsideRoute == <<clientVars, genRuns, selectVars, sideVars, uiVars, searchProgress>>

\* The handler's locals before it runs and after it has returned.
NoLocals ==
  /\ pmid = Null
  /\ mainPaper = <<>>
  /\ idsToProcess = <<>>
  /\ refIdx = 0
  /\ refReplies = <<>>
  /\ referencesPapers = <<>>
  /\ allResults = <<>>
  /\ termReply = [kind |-> "none"]
  /\ keywordsToUse = <<>>
  /\ resultsPerKeyword = 0
  /\ termIdx = 0
  /\ kwRequests = <<>>
  /\ kwFailed = 0
  /\ ids = <<>>
  /\ batchStart = 0
  /\ allPapers = <<>>
  /\ lastScored = <<>>
  /\ allKeywordResults = <<>>
  /\ uniqueTopResults = <<>>
  /\ caught = "none"

\* The same, of the next state.
ClearLocals ==
  /\ pmid' = Null
  /\ mainPaper' = <<>>
  /\ idsToProcess' = <<>>
  /\ refIdx' = 0
  /\ refReplies' = <<>>
  /\ referencesPapers' = <<>>
  /\ allResults' = <<>>
  /\ termReply' = [kind |-> "none"]
  /\ keywordsToUse' = <<>>
  /\ resultsPerKeyword' = 0
  /\ termIdx' = 0
  /\ kwRequests' = <<>>
  /\ kwFailed' = 0
  /\ ids' = <<>>
  /\ batchStart' = 0
  /\ allPapers' = <<>>
  /\ lastScored' = <<>>
  /\ allKeywordResults' = <<>>
  /\ uniqueTopResults' = <<>>
  /\ caught' = "none"

locals ==
  <<pmid, mainPaper, idsToProcess, refIdx, refReplies, referencesPapers, allResults, termReply,
    keywordsToUse, resultsPerKeyword, termIdx, kwRequests, kwFailed, ids, batchStart,
    allPapers, lastScored, allKeywordResults, uniqueTopResults, caught>>
refLocals == <<idsToProcess, refIdx, refReplies, referencesPapers>>
kwLocals ==
  <<termReply, keywordsToUse, resultsPerKeyword, termIdx, kwRequests, kwFailed, ids,
    batchStart, allPapers, lastScored, allKeywordResults>>
form == <<discussionText, maxResults>>

ClientInit ==
  /\ discussionText = <<>>
  /\ maxResults = DEFAULT_MAX_RESULTS
  /\ loading = FALSE
  /\ papers = <<>>
  /\ searchTerms = <<>>
  /\ pc = "idle"
  /\ claudeUp = TRUE
  /\ NoLocals

\* ------------------------------------------------------------ the form
\* The user edits the form between searches (a running handler reads the
\* values its closure captured when it started).
SetDiscussionText ==
  /\ pc = "idle"
  /\ \E t \in DiscussionTexts : discussionText' = t
  /\ UNCHANGED <<maxResults, loading, papers, searchTerms, pc, claudeUp, locals>>
  /\ UNCHANGED outsideClient

\* onChange of the maxResults input (lines 1048-1051).
SetMaxResults ==
  /\ pc = "idle"
  /\ \E v \in MaxResultsValues : maxResults' = v
  /\ UNCHANGED <<discussionText, loading, papers, searchTerms, pc, claudeUp, locals>>
  /\ UNCHANGED outsideClient

\* ------------------------------------------------ handleDiscussionSubmit
\* Lines 794-806: the button is disabled while loading; line 798 clears the
\* selection.
Submit ==
  /\ pc = "idle"
  /\ ~loading
  /\ loading' = TRUE
  /\ papers' = <<>>
  /\ \E up \in BOOLEAN : claudeUp' = up
  /\ pmid' = extractPMIDFromAbstract(discussionText)
  /\ pc' = IF pmid' = Null THEN "perplexity" ELSE "paper"
  /\ selectedPaper' = <<>>
  /\ UNCHANGED <<form, mainPaper, refLocals, allResults, kwLocals, uniqueTopResults, caught>>
  /\ UNCHANGED <<outsideSearch, searchProgress>>
  /\ UNCHANGED searchTerms

\* A variant of the step below that goes on to the direct-paper request
\* whether or not an identifier was found (the test of line 819 dropped).
PerplexityAlwaysFetches ==
  /\ pc = "perplexity"
  /\ \E reply \in PerplexityReplies :
       /\ pmid' = findPMIDWithPerplexity(reply)
       /\ pc' = "paper"
  /\ UNCHANGED <<form, loading, papers, searchTerms, claudeUp, mainPaper, refLocals, allResults,
                 kwLocals, uniqueTopResults, caught>>
  /\ UNCHANGED outsideClient

\* Lines 809-816: findPMIDWithPerplexity returns (it catches its own errors).
Perplexity ==
  /\ pc = "perplexity"
  /\ \E reply \in PerplexityReplies :
       /\ pmid' = findPMIDWithPerplexity(reply)
       /\ pc' = IF pmid' = Null THEN "terms" ELSE "paper"
  /\ UNCHANGED <<form, loading, papers, searchTerms, claudeUp, mainPaper, refLocals, allResults,
                 kwLocals, uniqueTopResults, caught>>
  /\ UNCHANGED outsideClient

\* Lines 823-829: the summary request for the subject paper.  The request
\* is rejected (or its body is no JSON), or answered with status 500, or
\* answered with a body that processPaperData can or cannot read.
PaperFetch ==
  /\ pc = "paper"
  /\ \E reply \in {"rejected", "http500", "ok", "malformed"} :
       CASE reply = "rejected" ->
              /\ caught' = "paperFetch"
              /\ pc' = "finally"
              /\ UNCHANGED mainPaper
         [] reply = "http500" ->
              /\ pc' = "terms"
              /\ UNCHANGED <<mainPaper, caught>>
         [] OTHER ->
              /\ mainPaper' = <<WithMainFlag(processPaperData(reply, pmid))>>
              /\ pc' = "references"
              /\ UNCHANGED caught
  /\ UNCHANGED <<form, loading, papers, searchTerms, claudeUp, pmid, refLocals, allResults, kwLocals,
                 uniqueTopResults>>
  /\ UNCHANGED outsideClient

\* The bodies of the references response: an error payload, link sets
\* without the pubmed_pubmed_refs database, or the links (distinct
\* identifiers, the paper itself not among them).
ReferencesBodies ==
  {[kind |-> "errorPayload"], [kind |-> "noRefsDb"]}
  \cup {[kind |-> "refs", links |-> l] : l \in SeqsNoDup(Ids \ {pmid}, MaxRefs)}

\* Lines 832-846: the references request, then findReferencedPapers when
\* there are identifiers (its lines 516-525).
ReferencesFetch ==
  /\ pc = "references"
  /\ \/ /\ caught' = "referencesFetch"
        /\ pc' = "finally"
        /\ UNCHANGED <<refLocals, allResults>>
     \/ \E body \in ReferencesBodies :
          LET refIds == extractReferenceIds(body) IN
          IF Len(refIds) > 0
          THEN /\ idsToProcess' = JsSliceFromStart(refIds, maxReferencesToGet(maxResults))
               /\ refIdx' = 0
               /\ refReplies' = <<>>
               /\ referencesPapers' = <<>>
               /\ pc' = "refs"
               /\ UNCHANGED <<allResults, caught>>
          ELSE /\ allResults' = mainPaper
               /\ pc' = "terms"
               /\ UNCHANGED <<refLocals, caught>>
  /\ UNCHANGED <<form, loading, papers, searchTerms, claudeUp, pmid, mainPaper, kwLocals, uniqueTopResults>>
  /\ UNCHANGED outsideClient

\* Lines 537-593: the body of the loop for one identifier.  A rejected
\* request or an exception while parsing is caught at line 591, a status
\* that is not OK or an unusable body continues with the next identifier;
\* a usable reply pushes the paper.
referenceOutcomeDropping(reply, id, allReferencedPapers) ==
  IF reply = "ok" THEN Append(allReferencedPapers, ReferencePaper(id)) ELSE <<>>
referenceOutcome(reply, id, allReferencedPapers) ==
  IF reply = "ok" THEN Append(allReferencedPapers, ReferencePaper(id)) ELSE allReferencedPapers

\* Lines 536-597: one identifier of findReferencedPapers.
RefFetch ==
  /\ pc = "refs"
  /\ refIdx < Len(idsToProcess)
  /\ refIdx' = refIdx + 1
  /\ \E reply \in {"rejected", "http500", "malformed", "ok"} :
       /\ refReplies' = Append(refReplies, reply)
       /\ referencesPapers' =
            referenceOutcome(reply, idsToProcess[refIdx + 1], referencesPapers)
  /\ UNCHANGED <<form, loading, papers, searchTerms, pc, claudeUp, pmid, mainPaper, idsToProcess,
                 allResults, kwLocals, uniqueTopResults, caught>>
  /\ UNCHANGED outsideClient

\* Lines 603 and 846: findReferencedPapers returns.
RefsDone ==
  /\ pc = "refs"
  /\ refIdx >= Len(idsToProcess)
  /\ allResults' = mainPaper \o referencesPapers
  /\ pc' = "terms"
  /\ UNCHANGED <<form, loading, papers, searchTerms, claudeUp, pmid, mainPaper, refLocals, kwLocals,
                 uniqueTopResults, caught>>
  /\ UNCHANGED outsideClient

\* Lines 851-864: generateSearchTerms returns.
Terms ==
  /\ pc = "terms"
  /\ refReplies' = <<>>
  /\ \E reply \in TermReplies(claudeUp) :
       LET out == generateSearchTerms(reply, discussionText) IN
       /\ termReply' = reply
       /\ IF out.raised
          THEN /\ caught' = "generateSearchTerms"
               /\ pc' = "finally"
               /\ UNCHANGED <<searchTerms, keywordsToUse, resultsPerKeyword>>
          ELSE /\ searchTerms' = out.terms
               /\ keywordsToUse' = JsSliceFromStart(out.terms, TOP_KEYWORDS)
               \* (with no term the quotient is Infinity, and is never used)
               /\ resultsPerKeyword' =
                    IF Len(keywordsToUse') = 0 THEN 0
                    ELSE resultsPerKeywordOf(maxResults, Len(allResults), Len(keywordsToUse'))
               /\ pc' = IF Len(keywordsToUse') = 0 THEN "merge" ELSE "kwSearch"
               /\ UNCHANGED caught
  /\ UNCHANGED <<form, loading, papers, claudeUp, pmid, mainPaper, idsToProcess, refIdx,
                 referencesPapers, allResults,
                 termIdx, kwRequests, kwFailed, ids, batchStart, allPapers, lastScored,
                 allKeywordResults, uniqueTopResults>>
  /\ UNCHANGED outsideClient

\* searchPubMed returns results for the term in hand (lines 868-870).
TermDone(results, started) ==
  /\ allKeywordResults' = allKeywordResults \o results
  /\ ids' = <<>>
  /\ batchStart' = 0
  /\ allPapers' = <<>>
  /\ pc' = IF started >= Len(keywordsToUse) THEN "merge" ELSE "kwSearch"
  /\ UNCHANGED caught

\* Lines 425-428: the catch of searchPubMed logs and returns [].
searchPubMedCatchRaising == [raised |-> TRUE, results |-> <<>>]
searchPubMedCatch == [raised |-> FALSE, results |-> <<>>]

\* A request of searchPubMed failed for the term in hand.
TermFailed(started) ==
  /\ kwFailed' = kwFailed + 1
  /\ IF searchPubMedCatch.raised
     THEN /\ caught' = "searchPubMed"
          /\ pc' = "finally"
          /\ UNCHANGED <<allKeywordResults, ids, batchStart, allPapers>>
     ELSE TermDone(searchPubMedCatch.results, started)

\* The identifier lists of a search response: distinct identifiers, at most
\* retmax of them.
IdLists(retmax) ==
  SeqsNoDup(Ids, Min(retmax, MaxHits - Len(allKeywordResults)))

\* Lines 866-868 and 302-322: the next term's search request.  The request
\* fails (rejected, or status 500: the catch of line 425 returns []), or the
\* body has no identifier list, or it has one.
KwSearchFetch ==
  /\ pc = "kwSearch"
  /\ termIdx' = termIdx + 1
  /\ kwRequests' = Append(kwRequests,
                     [term |-> keywordsToUse[termIdx + 1], retmax |-> resultsPerKeyword])
  /\ lastScored' = <<>>
  /\ \/ TermFailed(termIdx + 1)
     \/ \E l \in IdLists(resultsPerKeyword) :
          /\ UNCHANGED kwFailed
          /\ IF Len(l) = 0
             THEN TermDone(<<>>, termIdx + 1)
             ELSE /\ ids' = l
                  /\ batchStart' = 0
                  /\ allPapers' = <<>>
                  /\ pc' = "kwBatch"
                  /\ UNCHANGED <<allKeywordResults, caught>>
  /\ UNCHANGED <<form, loading, papers, searchTerms, claudeUp, pmid, mainPaper, refLocals, allResults,
                 termReply, keywordsToUse, resultsPerKeyword, uniqueTopResults>>
  /\ UNCHANGED outsideClient

\* Lines 326-421: one batch of searchPubMed: the progress is set (line 329),
\* then the summary request, then the
\* scoring calls of the batch's papers, awaited together.
KwBatch ==
  /\ pc = "kwBatch"
  /\ searchProgress' = [current |-> batchStart, total |-> Len(ids)]
  /\ LET batchIds == JsChunk(ids, batchStart, batchSize)
         batchPapers == ObjectEntriesOrder(batchIds)
     IN
     \/ \* the summary request fails or its body is malformed: line 425
        /\ TermFailed(termIdx)
        /\ lastScored' = <<>>
     \/ \E replies \in [1..Len(batchPapers) -> ScoreReplies(claudeUp)] :
          LET analysis == [i \in 1..Len(batchPapers) |-> analyzePaperRelevance(replies[i])]
              papersWithAnalysis ==
                [i \in 1..Len(batchPapers) |-> ScoredPaper(batchPapers[i], analysis[i])]
          IN
          /\ lastScored' = [i \in 1..Len(batchPapers) |->
                              [reply |-> replies[i], outcome |-> analysis[i]]]
          /\ IF \E i \in 1..Len(batchPapers) : analysis[i].raised
             THEN \* Promise.all rejects: line 425
                  TermFailed(termIdx)
             ELSE /\ UNCHANGED kwFailed
                  /\ IF batchStart + batchSize >= Len(ids)
                     THEN TermDone(allPapers \o papersWithAnalysis, termIdx)
                     ELSE /\ allPapers' = allPapers \o papersWithAnalysis
                          /\ batchStart' = batchStart + batchSize
                          /\ UNCHANGED <<ids, pc, allKeywordResults, caught>>
  /\ UNCHANGED <<form, loading, papers, searchTerms, claudeUp, pmid, mainPaper, refLocals, allResults,
                 termReply, keywordsToUse, resultsPerKeyword, termIdx, kwRequests,
                 uniqueTopResults>>
  /\ UNCHANGED <<outsideSearch, selectedPaper>>

\* Lines 874-892: the keyword papers kept for the result.
uniqueTopResultsOf(all, keywordResults, m) ==
  LET sortedKeywordResults == orderBy(keywordResults, <<"relevanceScore">>, <<"desc">>)
      existingPmids == {p.pmid : p \in Range(all)}
  IN TakeUnique(sortedKeywordResults, existingPmids, maxAdditionalPapers(m))

\* Lines 897-900: the list that is stored.
sortedResults(all, unique) ==
  LET finalResults == all \o unique
  IN orderBy(finalResults, <<"isMainPaper", "relevanceScore">>, <<"desc", "desc">>)

\* Lines 874-907: sort the keyword results, drop those already present, cut
\* to the budget, concatenate, sort, store.
Merge ==
  /\ pc = "merge"
  /\ uniqueTopResults' = uniqueTopResultsOf(allResults, allKeywordResults, maxResults)
  /\ papers' = sortedResults(allResults, uniqueTopResults')
  /\ pc' = "finally"
  /\ lastScored' = <<>>
  /\ UNCHANGED <<form, loading, claudeUp, pmid, mainPaper, refLocals, allResults, termReply,
                 keywordsToUse, resultsPerKeyword, termIdx, kwRequests, kwFailed, ids,
                 batchStart, allPapers, allKeywordResults, caught>>
  /\ UNCHANGED outsideClient
  /\ UNCHANGED searchTerms

\* A variant of the step below without setLoading(false).
FinallyKeepsLoading ==
  /\ pc = "finally"
  /\ pc' = "idle"
  /\ searchProgress' = [current |-> 0, total |-> 0]
  /\ ClearLocals
  /\ UNCHANGED <<form, loading, papers, searchTerms, claudeUp>>
  /\ UNCHANGED <<outsideSearch, selectedPaper>>

\* Lines 908-913: the catch logs; the finally block ends the flow, and the
\* handler's locals go out of scope.
Finally ==
  /\ pc = "finally"
  /\ loading' = FALSE
  /\ pc' = "idle"
  /\ searchProgress' = [current |-> 0, total |-> 0]
  /\ ClearLocals
  /\ UNCHANGED <<form, papers, searchTerms, claudeUp>>
  /\ UNCHANGED <<outsideSearch, selectedPaper>>

ClientNext ==
  \/ SetDiscussionText
  \/ SetMaxResults
  \/ Submit
  \/ Perplexity
  \/ PaperFetch
  \/ ReferencesFetch
  \/ RefFetch
  \/ RefsDone
  \/ Terms
  \/ KwSearchFetch
  \/ KwBatch
  \/ Merge
  \/ Finally

\* ============================================ the route GET /api/pubmed
DELAY == 1000

RequestTypes == {"search", "summary", "citations", "references", "other"}

\* An upstream reply: a payload without an error field, a payload with one,
\* or none (fetch rejects, or the body does not parse).
DataPayloads == {"d1", "d2", "d3"}
ErrorPayloads == {"e1", "e2"}
UpstreamReplies ==
  {[kind |-> "data", v |-> d] : d \in DataPayloads}
  \cup {[kind |-> "error", v |-> e] : e \in ErrorPayloads}
  \cup {[kind |-> "throw", v |-> "none"]}

\* The upstream endpoint the first call of an operation goes to.
Endpoint(type) ==
  CASE type = "search" -> "esearch"
    [] type = "summary" -> "esummary"
    [] type = "citations" -> "elink:citedin"
    [] type = "references" -> "elink:refs"
    [] OTHER -> "none"

NoResponse == [status |-> 0, body |-> [kind |-> "none"]]
\* NextResponse.json(payload): the upstream payload passed through.
PassThrough(payload) == [status |-> 200, body |-> [kind |-> "payload", v |-> payload]]
\* Lines 53-56
Combined(summaryData, fetchData) ==
  [status |-> 200, body |-> [kind |-> "combined", summary |-> summaryData, full |-> fetchData]]
\* Line 89
InvalidType == [status |-> 400, body |-> [kind |-> "invalidType"]]
\* Lines 96-99
Failed == [status |-> 500, body |-> [kind |-> "failed"]]

RouteInit ==
  /\ rType = "none"
  /\ rpc = "idle"
  /\ rCalls = <<>>
  /\ rSleeps = <<>>
  /\ rResponse = NoResponse

\* Lines 8-13: a request arrives.
RouteRequest ==
  /\ rpc \in {"idle", "responded"}
  /\ \E t \in RequestTypes : rType' = t
  /\ rpc' = "throttle"
  /\ rCalls' = <<>>
  /\ rSleeps' = <<>>
  /\ rResponse' = NoResponse
  /\ UNCHANGED outsideRoute

\* Line 15, and line 89 for a type that is none of the four.
RouteThrottle ==
  /\ rpc = "throttle"
  /\ rSleeps' = Append(rSleeps, DELAY)
  /\ IF rType = "other"
     THEN /\ rResponse' = InvalidType
          /\ rpc' = "responded"
     ELSE /\ rpc' = "first"
          /\ UNCHANGED rResponse
  /\ UNCHANGED <<rType, rCalls>>
  /\ UNCHANGED outsideRoute

\* Whether the route goes on to the retry after the first reply (lines 23,
\* 40, 64, 79: the payload has an error field).
RetriesAfterNever(reply) == FALSE
RetriesAfter(reply) == reply.kind = "error"

\* The first upstream call of the operation and the test of its payload.
RouteFirst ==
  /\ rpc = "first"
  /\ \E reply \in UpstreamReplies :
       /\ rCalls' = Append(rCalls, [endpoint |-> Endpoint(rType), attempt |-> 1, reply |-> reply])
       /\ IF reply.kind = "throw"
          THEN /\ rResponse' = Failed
               /\ rpc' = "responded"
          ELSE IF RetriesAfter(reply)
          THEN /\ rpc' = "retryWait"
               /\ UNCHANGED rResponse
          ELSE IF rType = "summary"
          THEN /\ rpc' = "efetch"
               /\ UNCHANGED rResponse
          ELSE /\ rResponse' = PassThrough(reply.v)
               /\ rpc' = "responded"
  /\ UNCHANGED <<rType, rSleeps>>
  /\ UNCHANGED outsideRoute

\* Lines 25, 42, 66, 81
RouteRetryWait ==
  /\ rpc = "retryWait"
  /\ rSleeps' = Append(rSleeps, DELAY * 2)
  /\ rpc' = "retry"
  /\ UNCHANGED <<rType, rCalls, rResponse>>
  /\ UNCHANGED outsideRoute

\* Lines 26-27, 43-44, 67-68, 82-83: the retry, whose payload is returned.
RouteRetry ==
  /\ rpc = "retry"
  /\ \E reply \in UpstreamReplies :
       /\ rCalls' = Append(rCalls, [endpoint |-> Endpoint(rType), attempt |-> 2, reply |-> reply])
       /\ rResponse' = IF reply.kind = "throw" THEN Failed ELSE PassThrough(reply.v)
  /\ rpc' = "responded"
  /\ UNCHANGED <<rType, rSleeps>>
  /\ UNCHANGED outsideRoute

\* Lines 48-56: the article markup, read as text and not inspected.
RouteEfetch ==
  /\ rpc = "efetch"
  /\ \E reply \in UpstreamReplies :
       /\ rCalls' = Append(rCalls, [endpoint |-> "efetch", attempt |-> 1, reply |-> reply])
       /\ rResponse' = IF reply.kind = "throw" THEN Failed
                       ELSE Combined(rCalls[1].reply.v, reply.v)
  /\ rpc' = "responded"
  /\ UNCHANGED <<rType, rSleeps>>
  /\ UNCHANGED outsideRoute

RouteNext ==
  \/ RouteRequest
  \/ RouteThrottle
  \/ RouteFirst
  \/ RouteRetryWait
  \/ RouteRetry
  \/ RouteEfetch

\* ===================================================== the specifications
\* ====================================================== handlePaperSelect
\* A record of findCitingPapers (lines 488-503).
CitingPaper(id) == [pmid |-> id, relevanceScore |-> CITING_SCORE, summary |-> SUM_CITING]

\* What findCitingPapers returns: [] when a request fails, the search has no
\* identifier or the body is malformed (line 509), else one record per key of
\* the summary result.
CitingLists ==
  {[i \in 1..Len(l) |-> CitingPaper(l[i])] :
     l \in {<<>>, <<"2">>, <<"3">>, ObjectEntriesOrder(<<"3", "2">>)}}

\* paper.references: the identifiers extractReferences found in the record
\* of a searched paper (lines 379 and 663); the records of references and
\* of citing papers have no such field, the placeholder has none to offer.
ReferenceLists == {<<>>, <<"2">>, <<"3", "3">>, <<"1", "3">>}
ReferencesOf(paper) ==
  IF paper.summary \in {SUM_REFERENCE, SUM_CITING, SUM_ERROR_PAPER}
  THEN {<<>>}
  ELSE ReferenceLists

\* findReferencedPapers on a list of identifiers, given what each request
\* returns (lines 525-603).
RECURSIVE findReferencedPapers(_, _, _)
findReferencedPapers(idList, replies, allReferencedPapers) ==
  IF idList = <<>> THEN allReferencedPapers
  ELSE findReferencedPapers(Tail(idList), Tail(replies),
                            referenceOutcome(Head(replies), Head(idList), allReferencedPapers))

\* Lines 929-934 and 944-949: push the fetched papers whose id is not yet in
\* newPapers.
RECURSIVE pushAll(_, _)
pushAll(newPapers, fetched) ==
  IF fetched = <<>> THEN newPapers
  ELSE pushAll(Append(newPapers, Head(fetched)), Tail(fetched))
RECURSIVE pushIfAbsent(_, _)
pushIfAbsent(newPapers, fetched) ==
  IF fetched = <<>> THEN newPapers
  ELSE pushIfAbsent(IF \E p \in Range(newPapers) : p.pmid = Head(fetched).pmid
                    THEN newPapers
                    ELSE Append(newPapers, Head(fetched)),
                    Tail(fetched))

\* Lines 921 and 926: the copy of the clicked paper; its citations field is
\* <<>> when undefined, else <<l>> with l the identifiers of its citing papers.
paperWithExtras(paperPmid, withCitations, citing) ==
  [pmid |-> paperPmid,
   citations |-> IF withCitations THEN <<[i \in 1..Len(citing) |-> citing[i].pmid]>> ELSE <<>>]

SelectInit ==
  /\ includeCitations = TRUE
  /\ includeReferences = TRUE
  /\ selPc = "idle"
  /\ selPaper = Null
  /\ selPapers = <<>>
  /\ selReferences = <<>>
  /\ citingPapers = <<>>
  /\ referencedPapers = <<>>

notPapers ==
  <<discussionText, maxResults, loading, searchTerms, pc, claudeUp, locals>>
searchResultLocals == <<allResults, allKeywordResults, uniqueTopResults>>
otherLocals ==
  <<pmid, mainPaper, refLocals, termReply, keywordsToUse, resultsPerKeyword, termIdx,
    kwRequests, kwFailed, ids, batchStart, allPapers, lastScored>>

\* The check boxes (lines 1056-1079), used between selections: a running
\* handlePaperSelect reads the searchConfig its closure captured.
ToggleCitations ==
  /\ selPc = "idle"
  /\ includeCitations' = ~includeCitations
  /\ UNCHANGED <<includeReferences, selPc, selPaper, selPapers, selReferences, citingPapers,
                 referencedPapers>>
  /\ UNCHANGED <<clientVars, routeVars, searchProgress, genRuns, sideVars, uiVars>>

ToggleReferences ==
  /\ selPc = "idle"
  /\ includeReferences' = ~includeReferences
  /\ UNCHANGED <<includeCitations, selPc, selPaper, selPapers, selReferences, citingPapers,
                 referencedPapers>>
  /\ UNCHANGED <<clientVars, routeVars, searchProgress, genRuns, sideVars, uiVars>>

\* Lines 915-925 and 940-941: a paper of the list is clicked; the handler
\* selects it and runs to its first await, or to its end when there is
\* nothing to load.  No record of the list has a citations field, so the
\* test `!paper.citations` of line 919 is true of every paper clicked.
SelectPaper ==
  /\ selPc = "idle"
  /\ \E i \in 1..Len(papers) : \E refs \in ReferencesOf(papers[i]) :
       /\ selectedPaper' = <<[pmid |-> papers[i].pmid, citations |-> <<>>]>>
       /\ IF includeCitations \/ (includeReferences /\ refs # <<>>)
          THEN /\ selPaper' = papers[i].pmid
               /\ selReferences' = refs
               /\ selPc' = IF includeCitations THEN "citing" ELSE "references"
               /\ selPapers' = papers
          ELSE UNCHANGED <<selPaper, selReferences, selPc, selPapers>>
  /\ citingPapers' = <<>>
  /\ referencedPapers' = <<>>
  /\ UNCHANGED <<includeCitations, includeReferences, notes, filterText>>
  /\ UNCHANGED <<clientVars, routeVars, searchProgress, genRuns, sideVars>>

\* Lines 925-940: findCitingPapers has returned.
SelCiting ==
  /\ selPc = "citing"
  /\ \E fetched \in CitingLists :
       /\ citingPapers' = fetched
       /\ papers' = pushIfAbsent(selPapers, fetched)
  /\ selPc' = IF includeReferences /\ Len(selReferences) > 0 THEN "references" ELSE "done"
  /\ UNCHANGED <<includeCitations, includeReferences, selPaper, selPapers, selReferences,
                 referencedPapers>>
  /\ UNCHANGED <<notPapers, routeVars, searchProgress, genRuns, sideVars, uiVars>>

\* Lines 941-954: findReferencedPapers has returned.
SelReferences ==
  /\ selPc = "references"
  /\ LET idList == JsSliceFromStart(selReferences, REFERENCES_DEFAULT_MAX) IN
     \E replies \in [1..Len(idList) -> {"rejected", "ok"}] :
       /\ referencedPapers' = findReferencedPapers(idList, replies, <<>>)
       /\ papers' = pushIfAbsent(selPapers, referencedPapers')
  /\ selPc' = "done"
  /\ UNCHANGED <<includeCitations, includeReferences, selPaper, selPapers, selReferences,
                 citingPapers>>
  /\ UNCHANGED <<notPapers, routeVars, searchProgress, genRuns, sideVars, uiVars>>

\* Lines 954-959: setSelectedPaper(paperWithExtras); the handler returns and
\* its locals go out of scope.
SelReturn ==
  /\ selPc = "done"
  /\ selectedPaper' = <<paperWithExtras(selPaper, includeCitations, citingPapers)>>
  /\ selPc' = "idle"
  /\ selPaper' = Null
  /\ selPapers' = <<>>
  /\ selReferences' = <<>>
  /\ citingPapers' = <<>>
  /\ referencedPapers' = <<>>
  /\ UNCHANGED <<includeCitations, includeReferences, notes, filterText>>
  /\ UNCHANGED <<clientVars, routeVars, searchProgress, genRuns, sideVars>>

\* Lines 801-907 in one step, for the runs in which selections and searches
\* overlap: the stages' requests return, and the handler stores its result
\* or lands in its catch.
SubjectSets ==
  {<<>>, <<WithMainFlag(processPaperData("ok", "1"))>>,
   <<WithMainFlag(processPaperData("ok", "1")), ReferencePaper("2")>>}
KeywordSets ==
  {[i \in 1..Len(l) |-> ScoredPaper(l[i], [relevanceScore |-> 9, summary |-> SUM_MODEL])] :
     l \in {<<>>, <<"2">>, <<"3">>, <<"2", "3">>, <<"3", "3">>}}
SearchSteps ==
  /\ pc \in {"perplexity", "paper"}
  /\ pc' = "finally"
  /\ \/ /\ caught' = "paperFetch"
        /\ UNCHANGED <<papers, searchResultLocals, searchProgress>>
     \/ \E all \in SubjectSets, keywordResults \in KeywordSets :
          /\ allResults' = all
          /\ allKeywordResults' = keywordResults
          /\ uniqueTopResults' = uniqueTopResultsOf(all, keywordResults, maxResults)
          /\ papers' = sortedResults(all, uniqueTopResults')
          \* line 329, for a term whose papers came in one batch
          /\ searchProgress' = IF keywordResults = <<>> THEN searchProgress
                               ELSE [current |-> 0, total |-> Len(keywordResults)]
          /\ UNCHANGED caught
  /\ UNCHANGED <<form, loading, searchTerms, claudeUp, otherLocals>>
  /\ UNCHANGED <<outsideSearch, selectedPaper>>

SelectNext ==
  \/ ToggleCitations
  \/ ToggleReferences
  \/ SelectPaper
  \/ SelCiting
  \/ SelReferences
  \/ SelReturn
  \/ Submit
  \/ SearchSteps
  \/ Finally

\* ============================= generateSearchTerms as a function of its
\* inputs: the discussion text and the reply of the completion API.
GenInit == genRuns = <<>>

\* One run of generateSearchTerms (lines 173-209) on a text and a reply.
GenerateRun ==
  /\ Len(genRuns) < MaxRuns
  /\ \E text \in DiscussionTexts, reply \in TermReplies(TRUE) \cup TermReplies(FALSE) :
       genRuns' = Append(genRuns, [text |-> text, reply |-> reply,
                                   terms |-> generateSearchTerms(reply, text).terms])
  /\ UNCHANGED <<clientVars, routeVars, selectVars, sideVars, uiVars, searchProgress>>

\* ============================ the abstract of a paper record, as a function
\* of the article markup and the identifier the record is built for.
NO_ABSTRACT == "No abstract available"
ERROR_ABSTRACT == "An error occurred while loading this paper."
MaxArticles == 2

\* querySelector('Abstract AbstractText') of an article: no element (Null),
\* or an element with its textContent.
AbstractElements == {Null, "", " ", "Background."}
Article == [pmid : {"1", "2"}, abstractElement : AbstractElements]
Articles == UNION {[1..n -> Article] : n \in 0..MaxArticles}

\* A variant of the assignment below that takes the textContent as it is.
abstractTextRaw(abstractText, abstractElement) ==
  IF abstractElement = Null THEN abstractText ELSE abstractElement
\* Lines 370-373, 477-480, 561-564, 654-657:
\* if (abstractElement) abstractText = abstractElement.textContent || abstractText
abstractTextOf(abstractText, abstractElement) ==
  IF abstractElement = Null THEN abstractText
  ELSE IF abstractElement = "" THEN abstractText
  ELSE abstractElement

\* Lines 366-384, 474-483, 650-668: the loop over the articles stops at the
\* first one whose PMID is the identifier; 0 when there is none.
MatchingArticle(articles, articleId) ==
  IF \E i \in 1..Len(articles) : articles[i].pmid = articleId
  THEN CHOOSE i \in 1..Len(articles) :
         /\ articles[i].pmid = articleId
         /\ \A j \in 1..(i - 1) : articles[j].pmid # articleId
  ELSE 0
abstractOfMatching(articles, articleId) ==
  LET i == MatchingArticle(articles, articleId) IN
  IF i = 0 THEN NO_ABSTRACT ELSE abstractTextOf(NO_ABSTRACT, articles[i].abstractElement)

Builders == {"searchPubMed", "findCitingPapers", "findReferencedPapers", "processPaperData"}
\* The identifier a builder works for: a key of the summary result; for
\* processPaperData there may be none (line 638), and the catch of line
\* 690 then returns the placeholder record.
BuilderInputs ==
  {<<b, id>> \in Builders \X {"1", "2", Null} : id = Null => b = "processPaperData"}
\* The abstract field of the record the builder returns; Null when it
\* builds no record (findReferencedPapers without an article, line 550).
abstractOf(builder, articles, id) ==
  CASE builder = "findReferencedPapers" ->
         IF articles = <<>> THEN Null
         ELSE abstractTextOf(NO_ABSTRACT, articles[1].abstractElement)
    [] builder = "processPaperData" /\ id = Null -> ERROR_ABSTRACT
    [] OTHER -> abstractOfMatching(articles, id)

AbstractInit == built = <<>>
BuildRecord ==
  /\ built = <<>>
  /\ \E in \in BuilderInputs, articles \in Articles :
       built' = <<[builder |-> in[1], id |-> in[2], articles |-> articles,
                   abstract |-> abstractOf(in[1], articles, in[2])]>>
  /\ UNCHANGED <<clientVars, routeVars, searchProgress, genRuns, selectVars, uiVars, firstVars,
                 batchVars>>

\* Lines 147, 148, 155, 156
UiInit ==
  /\ selectedPaper = <<>>
  /\ notes = <<>>
  /\ filterText = ""
  /\ searchProgress = [current |-> 0, total |-> 0]

\* ============================================= searchPubMed, batch by batch
\* Identifier lists longer than one batch, as a search request returns them.
BatchIdLists ==
  {<<"3">>, <<"1", "2", "3", "4", "5">>, <<"2", "1", "3", "4", "5", "6">>,
   <<"7", "6", "5", "4", "3", "2", "1">>}

\* The loop starts at its first batch: the state of the batch variables
\* whenever no searchPubMed is running.
BatchIdle ==
  /\ batchPc = "summary"
  /\ summaryRequests = <<>>
  /\ analyses = <<>>
  /\ batchDelays = 0
BatchReset ==
  /\ batchPc' = "summary"
  /\ summaryRequests' = <<>>
  /\ analyses' = <<>>
  /\ batchDelays' = 0

\* Lines 326-404: the summary request of the batch at batchStart; it fails
\* (line 425), or returns and the scoring calls of the batch are issued
\* together (lines 406-414).
BatchSummary ==
  /\ pc = "kwBatch"
  /\ batchPc = "summary"
  /\ searchProgress' = [current |-> batchStart, total |-> Len(ids)]
  /\ \/ /\ TermFailed(termIdx)
        /\ BatchReset
     \/ /\ summaryRequests' = Append(summaryRequests, JsChunk(ids, batchStart, batchSize))
        /\ analyses' = <<>>
        /\ batchPc' = "scoring"
        /\ UNCHANGED <<batchDelays, kwFailed, ids, batchStart, allPapers, allKeywordResults, pc,
                       caught>>
  /\ UNCHANGED <<form, loading, papers, searchTerms, claudeUp, pmid, mainPaper, refLocals, allResults,
                 termReply, keywordsToUse, resultsPerKeyword, termIdx, kwRequests, lastScored,
                 uniqueTopResults>>
  /\ UNCHANGED <<routeVars, genRuns, selectVars, uiVars, built, firstVars>>

\* The scoring calls of the batch that have not returned.
PendingScoring ==
  IF summaryRequests = <<>> THEN {}
  ELSE (1..Len(summaryRequests[Len(summaryRequests)])) \ DOMAIN analyses

\* Lines 408-411: one analyzePaperRelevance call of the batch returns; the
\* calls run concurrently and return in any order.
ScoreReturns ==
  /\ pc = "kwBatch"
  /\ batchPc = "scoring"
  /\ \E k \in PendingScoring, reply \in ScoreReplies(claudeUp) :
       analyses' = [i \in DOMAIN analyses \cup {k} |->
                      IF i = k THEN analyzePaperRelevance(reply) ELSE analyses[i]]
  /\ UNCHANGED <<batchPc, summaryRequests, batchDelays>>
  /\ UNCHANGED <<clientVars, routeVars, searchProgress, genRuns, selectVars, uiVars, built, firstVars>>

\* A variant of the test below that lets the loop go on once one call has
\* returned.
SettledAny(pending, calls) == pending # calls \/ calls = {}
\* Line 417: Promise.all resolves when every call of the batch has returned.
Settled(pending, calls) == pending = {}

\* Lines 417-420: the scored papers of the batch are appended, in the order
\* of batchPapers, and the delay starts.
BatchScored ==
  /\ pc = "kwBatch"
  /\ batchPc = "scoring"
  /\ Settled(PendingScoring, 1..Len(summaryRequests[Len(summaryRequests)]))
  /\ LET batchPapers == ObjectEntriesOrder(summaryRequests[Len(summaryRequests)])
         returned == SelectSeq([i \in 1..Len(batchPapers) |-> i],
                               LAMBDA i : i \in DOMAIN analyses)
         papersWithAnalysis ==
           [j \in 1..Len(returned) |->
              ScoredPaper(batchPapers[returned[j]], analyses[returned[j]])]
     IN allPapers' = allPapers \o papersWithAnalysis
  /\ batchPc' = "delay"
  /\ UNCHANGED <<summaryRequests, analyses, batchDelays>>
  /\ UNCHANGED <<form, loading, papers, searchTerms, pc, claudeUp, pmid, mainPaper, refLocals,
                 allResults, termReply, keywordsToUse, resultsPerKeyword, termIdx, kwRequests,
                 kwFailed, ids, batchStart, lastScored, allKeywordResults, uniqueTopResults,
                 caught>>
  /\ UNCHANGED <<routeVars, searchProgress, genRuns, selectVars, uiVars, built, firstVars>>

\* Lines 420-424 (and 868-870): the delay has elapsed; the loop goes to its
\* next batch, or searchPubMed returns allPapers.
BatchDelay ==
  /\ pc = "kwBatch"
  /\ batchPc = "delay"
  /\ IF batchStart + batchSize >= Len(ids)
     THEN /\ TermDone(allPapers, termIdx)
          /\ BatchReset
     ELSE /\ batchStart' = batchStart + batchSize
          /\ batchPc' = "summary"
          /\ batchDelays' = batchDelays + 1
          /\ UNCHANGED <<summaryRequests, analyses, ids, allPapers, allKeywordResults, pc, caught>>
  /\ UNCHANGED <<form, loading, papers, searchTerms, claudeUp, pmid, mainPaper, refLocals, allResults,
                 termReply, keywordsToUse, resultsPerKeyword, termIdx, kwRequests, kwFailed,
                 lastScored, uniqueTopResults>>
  /\ UNCHANGED <<routeVars, searchProgress, genRuns, selectVars, uiVars, built, firstVars>>

BatchNext ==
  \/ BatchSummary
  \/ ScoreReturns
  \/ BatchScored
  \/ BatchDelay
  \/ KwSearchFetch
  \/ Merge
  \/ Finally

\* ================================================ overlapping selections
\* Two paper clicks, the second while the expansion of the first is in
\* flight.  What runs between two awaits of a handler is one step.
FirstInit ==
  /\ firstPc = "idle"
  /\ firstPaper = Null
  /\ firstPapers = <<>>
  /\ firstReferences = <<>>
  /\ firstCiting = <<>>

\* Lines 915-925, 940-941: the first click, with no selection in flight.
FirstSelect ==
  /\ firstPc = "idle"
  /\ selPc = "idle"
  /\ \E i \in 1..Len(papers) : \E refs \in ReferencesOf(papers[i]) :
       /\ selectedPaper' = <<[pmid |-> papers[i].pmid, citations |-> <<>>]>>
       /\ IF includeCitations \/ (includeReferences /\ refs # <<>>)
          THEN /\ firstPaper' = papers[i].pmid
               /\ firstReferences' = refs
               /\ firstPc' = IF includeCitations THEN "citing" ELSE "references"
               /\ firstPapers' = papers
          ELSE UNCHANGED <<firstPaper, firstReferences, firstPc, firstPapers>>
  /\ UNCHANGED <<firstCiting, built, batchVars, notes, filterText>>
  /\ UNCHANGED <<clientVars, routeVars, searchProgress, genRuns, selectVars>>

\* Lines 954-959 for the first handler.
FirstReturn(citing) ==
  /\ selectedPaper' = <<paperWithExtras(firstPaper, includeCitations, citing)>>
  /\ firstPc' = "idle"
  /\ firstPaper' = Null
  /\ firstPapers' = <<>>
  /\ firstReferences' = <<>>
  /\ firstCiting' = <<>>

\* Lines 925-940, and 954 when no reference is to be loaded.
FirstCiting ==
  /\ firstPc = "citing"
  /\ selPc # "done"
  /\ \E fetched \in CitingLists :
       /\ papers' = pushIfAbsent(firstPapers, fetched)
       /\ IF includeReferences /\ Len(firstReferences) > 0
          THEN /\ firstCiting' = fetched
               /\ firstPc' = "references"
               /\ UNCHANGED <<firstPaper, firstPapers, firstReferences, selectedPaper>>
          ELSE FirstReturn(fetched)
  /\ UNCHANGED <<built, batchVars, notes, filterText>>
  /\ UNCHANGED <<notPapers, routeVars, searchProgress, genRuns, selectVars>>

\* Lines 941-954
FirstReferences ==
  /\ firstPc = "references"
  /\ selPc # "done"
  /\ LET idList == JsSliceFromStart(firstReferences, REFERENCES_DEFAULT_MAX) IN
     \E replies \in [1..Len(idList) -> {"rejected", "ok"}] :
       papers' = pushIfAbsent(firstPapers, findReferencedPapers(idList, replies, <<>>))
  /\ FirstReturn(firstCiting)
  /\ UNCHANGED <<built, batchVars, notes, filterText>>
  /\ UNCHANGED <<notPapers, routeVars, searchProgress, genRuns, selectVars>>

\* The second click: handlePaperSelect is called again while the first
\* call awaits.
SecondSelect ==
  /\ firstPc # "idle"
  /\ SelectPaper

OverlapNext ==
  \/ FirstSelect
  \/ FirstCiting
  \/ FirstReferences
  \/ SecondSelect
  \/ SelCiting
  \/ SelReferences
  \/ SelReturn

\* ================================================= notes and the filter
NoteTexts == {"a", "b"}
FilterTexts == {"", "x"}

\* A variant of the update below that keeps no other entry.
saveNoteAlone(prev, paperId, note) == [id \in {paperId} |-> note]
\* Lines 962-965: prev => ({...prev, [paperId]: note})
saveNote(prev, paperId, note) ==
  [id \in DOMAIN prev \cup {paperId} |-> IF id = paperId THEN note ELSE prev[id]]

\* Lines 1436-1446: the notes panel is shown for the selected paper; the
\* text area saves what is typed, the button saves notes[selectedPaper.id]
\* (undefined, here Null, when the paper has no note yet).
SaveNote ==
  /\ selectedPaper # <<>>
  /\ LET paperId == selectedPaper[1].pmid
         stored == IF paperId \in DOMAIN notes THEN notes[paperId] ELSE Null
     IN \E note \in NoteTexts \cup {stored} : notes' = saveNote(notes, paperId, note)
  /\ UNCHANGED <<selectedPaper, filterText>>
  /\ UNCHANGED <<clientVars, routeVars, searchProgress, genRuns, selectVars, sideVars>>

\* Line 1154: the filter box.
SetFilterText ==
  /\ \E text \in FilterTexts : filterText' = text
  /\ UNCHANGED <<selectedPaper, notes>>
  /\ UNCHANGED <<clientVars, routeVars, searchProgress, genRuns, selectVars, sideVars>>

\* A session in which a search has stored its result: the completion API
\* gave no usable reply for the terms and the scores, so the text was the
\* only term (line 208) and the keyword papers got the fallback score; the
\* subject paper, when there is one, stands last (line 900).
StoredLists ==
  LET fallback == [relevanceScore |-> FALLBACK_SCORE, summary |-> SUM_FALLBACK]
      keywordResults == <<ScoredPaper("1", fallback), ScoredPaper("2", fallback)>>
  IN {sortedResults(all, keywordResults) :
        all \in {<<>>, <<WithMainFlag(processPaperData("ok", "3"))>>}}
StoredInit ==
  /\ discussionText = <<>>
  /\ maxResults = DEFAULT_MAX_RESULTS
  /\ loading = FALSE
  /\ papers \in StoredLists
  /\ searchTerms = <<discussionText>>
  /\ pc = "idle"
  /\ claudeUp = TRUE
  /\ NoLocals
  /\ RouteInit /\ GenInit /\ SelectInit /\ AbstractInit /\ UiInit /\ FirstInit /\ BatchIdle

NotesNext ==
  \/ SaveNote
  \/ SetFilterText
  \/ SelectPaper
  \/ SelCiting
  \/ SelReferences
  \/ SelReturn
  \/ Submit

vars == <<clientVars, routeVars, searchProgress, genRuns, selectVars, sideVars, uiVars>>
Init ==
  /\ ClientInit /\ RouteInit /\ GenInit /\ SelectInit /\ AbstractInit /\ UiInit /\ FirstInit
  /\ BatchIdle
\* The search flow of the component.
Spec == Init /\ [][ClientNext]_vars
\* The route alone.
SpecRoute == Init /\ [][RouteNext]_vars
\* The term generator alone.
SpecTerms == Init /\ [][GenerateRun]_vars
\* Paper selections, with searches going on at the same time.
SpecSelect == Init /\ [][SelectNext]_vars
\* The record builders alone.
SpecAbstract == Init /\ [][BuildRecord]_vars
\* Notes, filter, selections and the start of a new search, after a search.
SpecNotes == StoredInit /\ [][NotesNext]_vars
\* Two overlapping selections, after a search.
SpecOverlap == StoredInit /\ [][OverlapNext]_vars
\* The keyword stage from the first term's identifier list on, batch by batch.
\* The search flow under the assumption that every request or timer the
\* handler awaits eventually returns or fails: a started handler takes its
\* next step.
FlowStep ==
  \/ Perplexity \/ PaperFetch \/ ReferencesFetch \/ RefFetch \/ RefsDone \/ Terms
  \/ KwSearchFetch \/ KwBatch \/ Merge \/ Finally
\* The user starts searches, with the form as it is at the start.
LiveNext == Submit \/ FlowStep
SpecLive == Init /\ [][LiveNext]_vars /\ WF_vars(FlowStep)
\* A search in which the term generator returned two terms and searchPubMed
\* has received the identifier list of the first.
BatchInit ==
  LET reply == [kind |-> "text", text |-> <<Blank, "a", NL, NL, "b", NL>>]
      terms == generateSearchTerms(reply, <<>>).terms
  IN
  /\ discussionText = <<>>
  /\ maxResults = DEFAULT_MAX_RESULTS
  /\ loading = TRUE
  /\ papers = <<>>
  /\ searchTerms = terms
  /\ pc = "kwBatch"
  /\ claudeUp \in BOOLEAN
  /\ pmid = Null
  /\ mainPaper = <<>>
  /\ idsToProcess = <<>> /\ refIdx = 0 /\ refReplies = <<>> /\ referencesPapers = <<>>
  /\ allResults = <<>>
  /\ termReply = reply
  /\ keywordsToUse = JsSliceFromStart(terms, TOP_KEYWORDS)
  /\ resultsPerKeyword = resultsPerKeywordOf(maxResults, 0, Len(keywordsToUse))
  /\ termIdx = 1
  /\ kwRequests = <<[term |-> keywordsToUse[1], retmax |-> resultsPerKeyword]>>
  /\ kwFailed = 0
  /\ ids \in {l \in BatchIdLists : Len(l) <= resultsPerKeyword}
  /\ batchStart = 0
  /\ allPapers = <<>>
  /\ lastScored = <<>>
  /\ allKeywordResults = <<>>
  /\ uniqueTopResults = <<>>
  /\ caught = "none"
  /\ RouteInit /\ GenInit /\ SelectInit /\ AbstractInit /\ UiInit /\ FirstInit /\ BatchIdle
SpecBatches == BatchInit /\ [][BatchNext]_vars

\* ================================================================ claims
\* The search has stored its result list: Merge has run and the handler's
\* locals are still in scope.
ResultStored == pc = "finally" /\ caught = "none"
PmidsOf(list) == {list[i].pmid : i \in 1..Len(list)}
Occurrences(list, id) == Cardinality({i \in 1..Len(list) : list[i].pmid = id})
ReplyFailed(reply) == reply.kind \in {"rejected", "notOk", "noContent", "unparsable"}

\* C1: the paper list that handleDiscussionSubmit stores as its result
\* contains no two papers with the same identifier.
C1_UniqueIdentifiers ==
  ResultStored => \A i, j \in 1..Len(papers) : i # j => papers[i].pmid # papers[j].pmid

\* C2: every paper in the result list has a relevance score that is an
\* integer between 1 and 10 inclusive, whatever the completion API replies.
C2_ScoreInRange ==
  \A i \in 1..Len(papers) : papers[i].relevanceScore \in 1..10

\* C3: when the discussion text contains a literal "PMID: <digits>" pattern
\* (and the subject paper was fetched and the result stored), the first
\* element of the result list has the primary-subject flag and its
\* identifier equals those digits.
C3_SubjectPaperFirst ==
  ( /\ ResultStored
    /\ extractPMIDFromAbstract(discussionText) # Null
    /\ mainPaper # <<>>
    /\ mainPaper[1].pmid = extractPMIDFromAbstract(discussionText) )
  => /\ Len(papers) > 0
     /\ IsMain(papers[1])
     /\ papers[1].pmid = extractPMIDFromAbstract(discussionText)

\* C4: for every maxResults, a search expands at most floor(maxResults * 0.8)
\* reference identifiers into paper records (none when that is negative) and
\* adds at most max(2, floor(maxResults * 0.2)) keyword-search papers.
C4_StageBudgets ==
  /\ Len(referencesPapers) <= Max(0, FloorPct80(maxResults))
  /\ Len(uniqueTopResults) <= Max(2, FloorPct20(maxResults))

\* C5: the number of papers in the result list produced by one search never
\* exceeds the configured maxResults (stated for a positive maxResults).
C5_AtMostMaxResults ==
  (ResultStored /\ maxResults > 0) => Len(papers) <= maxResults

\* C6: if an identifier of the subject-paper-plus-references set is also
\* returned by a keyword search, the final result contains exactly one paper
\* with that identifier, and it is the entry of the subject/reference set,
\* not the keyword-search entry.
C6_ReferenceEntryWins ==
  ResultStored =>
    \A id \in PmidsOf(allResults) \cap PmidsOf(allKeywordResults) :
      /\ Occurrences(papers, id) = 1
      /\ \A i \in 1..Len(papers) :
           papers[i].pmid = id =>
             /\ papers[i] \in Range(allResults)
             /\ papers[i].summary \in {SUM_DIRECT, SUM_REFERENCE, SUM_ERROR_PAPER}

\* C6 witness: a reference is also a keyword-search paper, scored higher by
\* the model than the reference's fixed score.
C6_Witness ==
  /\ ResultStored
  /\ \E i \in 1..Len(allResults), j \in 1..Len(allKeywordResults) :
       /\ allResults[i].pmid = allKeywordResults[j].pmid
       /\ allResults[i].summary = SUM_REFERENCE
       /\ allKeywordResults[j].relevanceScore > REFERENCE_SCORE
  /\ Len(uniqueTopResults) > 0

\* C7: if the completion API is unreachable or its reply cannot be parsed,
\* the relevance scorer returns score 5 with the fixed fallback summary and
\* never raises; in a search run with the completion API unreachable every
\* scored paper carries score 5 and that summary, and no exception of a
\* completion-API call reaches the handler's catch.
C7_ScorerFallback ==
  /\ \A i \in 1..Len(lastScored) :
       /\ ~lastScored[i].outcome.raised
       /\ ReplyFailed(lastScored[i].reply) =>
            /\ lastScored[i].outcome.relevanceScore = FALLBACK_SCORE
            /\ lastScored[i].outcome.summary = SUM_FALLBACK
  /\ ~claudeUp =>
       \A p \in Range(allPapers) \cup Range(allKeywordResults) \cup Range(uniqueTopResults) :
         p.relevanceScore = FALLBACK_SCORE /\ p.summary = SUM_FALLBACK
  /\ caught \in {"none", "paperFetch", "referencesFetch"}
  /\ (pc = "kwBatch" /\ allPapers # <<>>) => Len(allPapers) = batchStart

\* C7 witness: a search run with the completion API unreachable has stored
\* a result with scored papers in it.
C7_Witness ==
  /\ ResultStored
  /\ ~claudeUp
  /\ Len(uniqueTopResults) >= 2
  /\ \E i \in 1..Len(papers) : papers[i].summary = SUM_FALLBACK

\* C8: for every discussion text and every completion-API reply, the term
\* generator returns a list of at least 1 and at most 12 search terms.
C8_TermCount ==
  termReply.kind # "none" => Len(searchTerms) >= 1 /\ Len(searchTerms) <= 12

\* C9: on any failure of term generation the term generator returns the
\* list containing exactly the raw discussion text, does not raise, and the
\* keyword-search stage still runs with that single term.
C9_TermFallback ==
  ReplyFailed(termReply) =>
    /\ searchTerms = <<discussionText>>
    /\ keywordsToUse = <<discussionText>>
    /\ caught = "none"
    /\ pc \in {"kwSearch", "kwBatch", "merge", "finally"}
    /\ pc # "kwSearch" =>
         kwRequests = <<[term |-> discussionText, retmax |-> resultsPerKeyword]>>

\* C9 witness: term generation failed on a malformed reply, and the search
\* of the raw text has contributed papers to the stored result.
C9_Witness ==
  /\ ResultStored
  /\ termReply.kind = "noContent"
  /\ Len(kwRequests) = 1
  /\ Len(uniqueTopResults) > 0

\* C10: for each literature-database operation, when an upstream call
\* returns an error payload the route waits (longer than the normal
\* throttle) and retries that call exactly once; if the retry also returns
\* an error payload, that payload is returned to the caller unchanged.
C10_RetryOnceOnError ==
  rpc = "responded" =>
    \A i \in 1..Len(rCalls) :
      (rCalls[i].attempt = 1 /\ rCalls[i].reply.kind = "error") =>
        /\ i < Len(rCalls)
        /\ rCalls[i + 1].endpoint = rCalls[i].endpoint
        /\ rCalls[i + 1].attempt = 2
        /\ Cardinality({j \in 1..Len(rCalls) :
                          rCalls[j].endpoint = rCalls[i].endpoint /\ rCalls[j].attempt > 1}) = 1
        /\ \E k \in 1..Len(rSleeps) : rSleeps[k] > DELAY
        /\ rCalls[i + 1].reply.kind = "error" => rResponse = PassThrough(rCalls[i + 1].reply.v)

\* The papers of a list that are not the subject paper and have the score.
WithScore(list, score) == SelectSeq(list, LAMBDA p : ~IsMain(p) /\ p.relevanceScore = score)

\* C11: in the result list produced by a search, the primary subject paper
\* (if any) precedes every other paper, the remaining papers appear in
\* non-increasing relevance-score order, and papers of equal score keep the
\* relative order they had in the concatenation (subject paper + references)
\* followed by (keyword additions).
C11_FinalOrdering ==
  ResultStored =>
    /\ \A i, j \in 1..Len(papers) : (IsMain(papers[j]) /\ ~IsMain(papers[i])) => j < i
    /\ \A i, j \in 1..Len(papers) :
         (i < j /\ ~IsMain(papers[i]) /\ ~IsMain(papers[j]))
           => papers[i].relevanceScore >= papers[j].relevanceScore
    /\ \A i \in 1..Len(papers) :
         WithScore(papers, papers[i].relevanceScore)
           = WithScore(allResults \o uniqueTopResults, papers[i].relevanceScore)

C17_MaxResultsClamped == maxResults >= 10 /\ maxResults <= 100

\* C19: every search invokes term generation and the keyword-search stage,
\* whatever the requests of the subject-paper stage return: when the flow
\* reaches its finally block, term generation has been called and every
\* keyword in use has been searched.
C19_TermsAlwaysRun ==
  pc = "finally" =>
    /\ termReply.kind # "none"
    /\ Len(kwRequests) = Len(keywordsToUse)

\* The papers findReferencedPapers returns for the replies its requests got.
RECURSIVE FetchedReferences(_, _)
FetchedReferences(idList, replies) ==
  IF replies = <<>> THEN <<>>
  ELSE IF Head(replies) = "ok"
  THEN <<ReferencePaper(Head(idList))>> \o FetchedReferences(Tail(idList), Tail(replies))
  ELSE FetchedReferences(Tail(idList), Tail(replies))

\* C20: during reference expansion a failure while fetching or parsing one
\* reference identifier skips only that reference: every identifier within
\* the budget is requested, and the returned list holds, in order, exactly
\* the references whose request succeeded, before or after a failure.
C20_FailedReferenceSkipped ==
  /\ pc = "refs" =>
       /\ caught = "none"
       /\ Len(refReplies) = refIdx
       /\ refIdx <= Len(idsToProcess)
       /\ referencesPapers = FetchedReferences(idsToProcess, refReplies)
  /\ (pc = "terms" /\ idsToProcess # <<>>) =>
       /\ Len(refReplies) = Len(idsToProcess)
       /\ allResults = mainPaper \o FetchedReferences(idsToProcess, refReplies)

\* C20 witness: the first reference failed, the second was still requested
\* and is in the list findReferencedPapers returned.
C20_Witness ==
  /\ pc = "terms"
  /\ Len(idsToProcess) = 2
  /\ refReplies \in {<<"rejected", "ok">>, <<"malformed", "ok">>}
  /\ allResults = mainPaper \o <<ReferencePaper(idsToProcess[2])>>

IdsOf(list) == [i \in 1..Len(list) |-> list[i].pmid]
\* Every paper of the set has its identifier in the list.
HoldsAll(list, set) == \A p \in set : \E i \in 1..Len(list) : list[i].pmid = p.pmid

\* C12: lazy expansion on paper selection never introduces a duplicate
\* identifier: if the list handlePaperSelect started from had unique
\* identifiers, the list has unique identifiers after every update the
\* handler makes, also when a fetched paper is already in the list or is
\* returned twice.
C12_SelectKeepsUnique ==
  [][(selPc' # selPc /\ papers' # papers /\ NoDup(IdsOf(selPapers)))
       => NoDup(IdsOf(papers'))]_vars

\* C12 witness: the expansion has finished; a citing paper was already in
\* the list, a referenced paper was returned twice, and the list holds the
\* papers it had and the new one, each once.
C12_Witness ==
  /\ selPc = "done"
  /\ NoDup(IdsOf(selPapers))
  /\ \E c \in Range(citingPapers) : \E q \in Range(selPapers) : q.pmid = c.pmid
  /\ Len(referencedPapers) = 2
  /\ referencedPapers[1].pmid = referencedPapers[2].pmid
  /\ papers = Append(selPapers, referencedPapers[1])
  /\ NoDup(IdsOf(papers))

\* C13: when a lazy expansion with both citing-paper and referenced-paper
\* expansion enabled finishes, the result list contains every paper it held
\* when the paper was selected, every fetched citing paper and every fetched
\* referenced paper.
C13_ExpansionMerged ==
  [][(selPc # "done" /\ selPc' = "done" /\ includeCitations /\ includeReferences)
       => HoldsAll(papers', Range(selPapers) \cup Range(citingPapers')
                              \cup Range(referencedPapers'))]_vars

\* C14: a new search discards the prior result state: while the new search
\* has not stored its result the list is empty, and when it has, the list
\* is what the search stored, also when a selection started before the
\* search completes during it.
C14_NewSearchDiscards ==
  /\ pc \notin {"idle", "finally"} => papers = <<>>
  /\ pc = "finally" =>
       papers = IF caught = "none" THEN sortedResults(allResults, uniqueTopResults) ELSE <<>>

\* C15: while a search flow is active the result list is changed only by
\* steps of that flow, and at most one flow is active: a flow starts only
\* when loading is false and sets it, and loading becomes false only in the
\* flow's finally block.
C15_OnlySearchMutates ==
  [][/\ (loading /\ papers' # papers) => pc' # pc
     /\ (pc = "idle" /\ pc' # "idle") => (~loading /\ loading')
     /\ (loading /\ ~loading') => (pc = "finally" /\ pc' = "idle")]_vars

\* C21: a search in which neither the literal pattern nor the resolution
\* service yields an identifier never stands at the direct-paper request or
\* at a reference request, collects no subject or reference paper, and stores
\* only papers of the keyword searches; the resolution service is asked only
\* when the text holds no literal identifier.
C21_NoIdentifierNoRequests ==
  /\ pc = "perplexity" => extractPMIDFromAbstract(discussionText) = Null
  /\ pc \in {"paper", "references", "refs"} => pmid # Null
  /\ (pc \in {"terms", "kwSearch", "kwBatch", "merge", "finally"} /\ pmid = Null) =>
        /\ mainPaper = <<>>
        /\ referencesPapers = <<>>
        /\ refReplies = <<>>
        /\ allResults = <<>>
  /\ (ResultStored /\ pmid = Null) =>
        \A i \in 1..Len(papers) : \E j \in 1..Len(allKeywordResults) : papers[i] = allKeywordResults[j]
C21_Witness ==
  /\ ResultStored
  /\ pmid = Null
  /\ extractPMIDFromAbstract(discussionText) = Null
  /\ Len(papers) >= 2

\* C22: in the stored result list at most one paper carries the
\* primary-subject flag, and every paper carrying it has relevance score 10,
\* whatever was replied to the direct-paper request.
C22_SubjectFlagMeansTen ==
  ResultStored =>
    /\ Cardinality({i \in 1..Len(papers) : IsMain(papers[i])}) <= 1
    /\ \A i \in 1..Len(papers) : IsMain(papers[i]) => papers[i].relevanceScore = MAIN_SCORE

\* C23: a search issues at most 5 keyword searches, the i-th for the i-th
\* generated term, and each asks for max(1, ceil(max(2, maxResults - n) / k))
\* results, n the number of subject and reference papers collected and k the
\* number of terms used; a search that ran to its end issued one per term used.
C23_KeywordRequests ==
  (pc \in {"kwSearch", "kwBatch", "merge"} \/ (ResultStored /\ Len(kwRequests) > 0)) =>
    LET k == IF Len(searchTerms) < 5 THEN Len(searchTerms) ELSE 5
        spots == IF maxResults - Len(allResults) > 2 THEN maxResults - Len(allResults) ELSE 2
        quotient == CHOOSE q \in 1..spots : q * k >= spots /\ (q - 1) * k < spots
    IN  /\ Len(kwRequests) <= 5
        /\ Len(kwRequests) <= k
        /\ pc \in {"merge", "finally"} => Len(kwRequests) = k
        /\ \A i \in 1..Len(kwRequests) :
             /\ kwRequests[i].term = searchTerms[i]
             /\ kwRequests[i].retmax = quotient
C23_Witness ==
  /\ ResultStored
  /\ Len(searchTerms) > 5
  /\ Len(kwRequests) = 5
  /\ Len(allResults) > 0
  /\ kwRequests[5].retmax * 5 > maxResults - Len(allResults)
  /\ maxResults - Len(allResults) > 2

\* C27: every response of the route to a summary request that is not an
\* error payload holds both the summary metadata and the full article markup,
\* also when the first summary call got an error payload and the retry
\* succeeded.
C27_SummaryResponseHasBoth ==
  (/\ rpc = "responded"
   /\ rType = "summary"
   /\ rResponse.status = 200
   /\ ~(rResponse.body.kind = "payload" /\ rResponse.body.v \in ErrorPayloads)) =>
     rResponse.body.kind = "combined"

\* C26: every record a builder returns has a non-empty abstract; with no
\* abstract element, an empty one, or no article for the identifier, the
\* abstract is the fixed text, and the error placeholder has its own.
C26_AbstractNeverEmpty ==
  \A i \in 1..Len(built) :
    LET run == built[i]
        hit == IF run.builder = "findReferencedPapers" THEN 1
               ELSE MatchingArticle(run.articles, run.id)
    IN  run.abstract # Null =>
          /\ run.abstract # ""
          /\ (run.builder = "processPaperData" /\ run.id = Null) => run.abstract = ERROR_ABSTRACT
          /\ (run.id # Null /\ hit = 0) => run.abstract = NO_ABSTRACT
          /\ (run.id # Null /\ hit > 0 /\ run.articles[hit].abstractElement \in {Null, ""})
                => run.abstract = NO_ABSTRACT
          /\ (run.id # Null /\ hit > 0 /\ run.articles[hit].abstractElement \notin {Null, ""})
                => run.abstract = run.articles[hit].abstractElement
C26_Witness ==
  /\ Len(built) = 1
  /\ built[1].builder = "searchPubMed"
  /\ Len(built[1].articles) = 2
  /\ built[1].articles[1].pmid # built[1].id
  /\ built[1].articles[2].pmid = built[1].id
  /\ built[1].articles[2].abstractElement = ""
  /\ built[1].abstract = NO_ABSTRACT

\* C25: once the expansion of a paper has completed, so that it is the
\* selected paper with its citations loaded, clicking that paper in the list
\* again starts no citing-paper or referenced-paper request.
C25_NoRepeatedExpansion ==
  [][(selPc = "idle" /\ selPc' \in {"citing", "references"})
       => ~(/\ selectedPaper # <<>>
            /\ selectedPaper[1].citations # <<>>
            /\ selPaper' = selectedPaper[1].pmid)]_vars

\* C30: a step that changes the notes changes the note of one paper id and
\* keeps every other entry; starting a search, the steps of a selection and
\* a change of the filter leave the notes as they are.
C30_NotesFrame ==
  [][/\ notes' # notes =>
          \E paperId \in DOMAIN notes' :
            /\ DOMAIN notes' = DOMAIN notes \cup {paperId}
            /\ \A id \in DOMAIN notes \ {paperId} : notes'[id] = notes[id]
     /\ (\/ pc' # pc \/ loading' # loading \/ papers' # papers
         \/ selPc' # selPc \/ selectedPaper' # selectedPaper
         \/ filterText' # filterText) => notes' = notes]_vars
C30_Witness ==
  /\ loading
  /\ filterText = "x"
  /\ selPc = "done"
  /\ Cardinality(DOMAIN notes) >= 2
  /\ \E id \in DOMAIN notes : notes[id] = "b"
  /\ \E id \in DOMAIN notes : notes[id] = "a"

\* C29: a paper is clicked, then another one while the first expansion is
\* in flight.  When the first expansion is the last to complete, the second
\* paper, with its citations, stays the selected paper, and the list holds
\* the citing papers of the second paper along with what the first loaded.
C29_LastClickWins ==
  [][(/\ firstPc # "idle" /\ firstPc' = "idle"
      /\ selPc = "idle"
      /\ selectedPaper # <<>>
      /\ selectedPaper[1].citations # <<>>
      /\ selectedPaper[1].pmid # firstPaper)
       => /\ selectedPaper' = selectedPaper
          /\ \A id \in Range(selectedPaper[1].citations[1]) : id \in PmidsOf(papers')
          /\ \A p \in Range(firstCiting) : p.pmid \in PmidsOf(papers')]_vars

\* C24: the keyword stage runs strictly in sequence.  A summary request is
\* issued only when every scoring call of the batch before it has returned
\* and one delay per earlier batch has elapsed; it carries at most 5
\* identifiers, and the requests of a term taken together are a prefix of
\* its identifier list, the whole list when searchPubMed returns its papers.
\* The search request of the next term is issued only when the search of
\* the term before it has returned.
C24_SequentialPipeline ==
  [][/\ Len(summaryRequests') > Len(summaryRequests) =>
          LET requested == Flatten(summaryRequests') IN
          /\ PendingScoring = {}
          /\ batchDelays = Len(summaryRequests)
          /\ Len(summaryRequests'[Len(summaryRequests')]) \in 1..5
          /\ Len(requested) <= Len(ids)
          /\ requested = SubSeq(ids, 1, Len(requested))
     /\ (pc = "kwBatch" /\ pc' # "kwBatch" /\ kwFailed' = kwFailed) =>
          /\ Flatten(summaryRequests) = ids
          /\ PendingScoring = {}
          /\ batchPc = "delay"
     /\ Len(kwRequests') > Len(kwRequests) =>
          /\ pc = "kwSearch"
          /\ summaryRequests = <<>>
          /\ PendingScoring = {}
          /\ ids = <<>>]_vars
C24_Witness ==
  /\ Len(ids) = 7
  /\ Len(summaryRequests) = 2
  /\ Len(summaryRequests[1]) = 5
  /\ batchDelays = 1
  /\ batchPc = "delay"
  /\ Len(allPapers) = 7
  /\ \E i \in 1..7 : allPapers[i].relevanceScore = 11

\* C28: every started search ends: from any state with loading set, a state
\* is reached in which loading is false and the progress is 0 of 0,
\* whether the flow stores a result or lands in its catch; and loading is
\* set in every state in which the handler is running.
C28_SearchEnds ==
  /\ [](pc # "idle" => loading)
  /\ loading ~> (~loading /\ searchProgress = [current |-> 0, total |-> 0])
C28_Witness ==
  /\ pc = "idle"
  /\ ~loading
  /\ searchProgress = [current |-> 0, total |-> 0]
  /\ Len(papers) > 0
  /\ Len(searchTerms) > 1

====
